---- MODULE Spec2Model ----
(***************************************************************************)
(* MotionMatch: the indexing pipeline (workers/tasks.py over               *)
(* db/postgres.py), the batch job scheduler, and the query cache of the    *)
(* search service (services/search.py).                                    *)
(*                                                                         *)
(* IndexSpec  : one batch_index_task and the index_video_task units it     *)
(*              dispatches, over the three stores.                         *)
(* SearchSpec : concurrent SearchService._encode_query_video calls over    *)
(*              the two-tier query cache.                                  *)
(***************************************************************************)
EXTENDS Naturals, Integers, Sequences, FiniteSets, TLC

\* ---------------------------------------------------------------- bounds
MaxSubs == 2            \* submissions in the batch
NumThreads == 2         \* request threads of the search service
MaxVideos == 2          \* length of normal_videos
MaxCalls == 2           \* establish_baseline calls
MaxSearches == 3        \* searches issued in a run

\* ------------------------------------------------------ program constants
MaxRetries == 3         \* @celery_app.task(bind=True, max_retries=3)
\* config.QUERY_CACHE_SIZE_MB (config.py line 61), the configurable budget of
\* the query cache, counted in encodings: a deployment whose budget holds
\* one encoding
QueryCacheSize == 1

SearchTopK == 50        \* config.SEARCH_TOP_K
TemporalWeight == 7     \* combined_score = 0.7 * temporal_score + ...
GlobalWeight == 3       \*                  ... 0.3 * similarity_score
DtwWeight == 5          \* temporal_score = 0.5 * dtw_similarity
CosineWeight == 3       \*                + 0.3 * cosine_sim
VarWeight == 2          \*                + 0.2 * var_similarity

\* the video ids a batch may name
Videos == {"v1", "v2"}
TaskIds == 1..MaxSubs

NoRow == [status |-> "absent", path |-> <<>>]
NoPath == <<>>
NoJob == [total |-> 0, completed |-> 0, failed |-> 0, status |-> "absent",
          started |-> FALSE]

VARIABLES
    configBound,   \* whether the global name `config` is bound in tasks.py
    subs,          \* video_submissions of the batch: a sequence of video ids
    rows,          \* metadata store, table videos: video id -> row
    vectors,       \* vector index: video id -> number of entries
    tfiles,        \* temporal store: set of file paths
    task,          \* index_video_task units: position, request.retries (of a
                   \* live request), result state
    job,           \* metadata store, table indexing_jobs: the batch's row
    batch,         \* batch_index_task: position, loop index, local counters
    dbFault,       \* whether postgres.py has swallowed a database error; a
                   \* run sees at most one
    files,         \* file system: query path -> content, or unreadable
    queryCache,    \* SearchService.query_cache: key -> features
    diskCache,     \* <storage>/query_cache/<hash>.npz: key -> file
    thr,           \* request threads inside _encode_query_video
    searches,      \* searches issued so far
    encoded,       \* encodings the encoder produced, per cache key
    req,           \* SearchService.search calls: position, request, candidates
    writing,       \* temporal files np.save has opened and not yet completed
    tmat,          \* temporal store: the matrix each video's file holds
    pre,           \* one attempt of index_video_task seen through its
                   \* optional stages (tasks.py lines 33-69)
    anom           \* AnomalyDetectionService: baseline_features and the
                   \* establish_baseline call in progress

ivars == <<configBound, subs, rows, vectors, tfiles, task, job, batch, dbFault>>

svars == <<files, queryCache, diskCache, thr, searches, encoded>>

qvars == <<req, writing, tmat>>

pvars == <<pre>>

avars == <<anom>>

vars == <<ivars, svars, qvars, pvars, avars>>

\* ------------------------------------------------------------ the stores

\* tasks.py store_temporal_features: <features_dir>/<video_id>_temporal.npy
TemporalPath(v) == <<"temporal_features", v, "_temporal.npy">>

\* update_indexing_status that writes a fresh row over the existing one
UpdateIndexingStatusReplace(r, v, status) ==
    [r EXCEPT ![v] = [status |-> status, path |-> NoPath]]

\* postgres.py update_indexing_status, the committed transaction
UpdateIndexingStatus(r, v, status) ==
    IF r[v] = NoRow
    THEN [r EXCEPT ![v] = [status |-> status, path |-> NoPath]]
    ELSE [r EXCEPT ![v].status = status]

\* postgres.py update_video_metadata, the committed transaction; a row it
\* creates takes the column default status "pending"
UpdateVideoMetadata(r, v, path) ==
    IF r[v] = NoRow
    THEN [r EXCEPT ![v] = [status |-> "pending", path |-> path]]
    ELSE [r EXCEPT ![v].path = path]

\* vector_db.insert_video: re-inserting an id replaces the prior entry
InsertVideo(vec, v) == [vec EXCEPT ![v] = 1]

\* a write to the videos table: it commits, or the exception is logged,
\* rolled back and not re-raised (postgres.py except/rollback)
DbWrite(newRows) ==
    \E ok \in BOOLEAN :
        /\ ok \/ ~dbFault
        /\ rows' = IF ok THEN newRows ELSE rows
        /\ dbFault' = (dbFault \/ ~ok)

\* ---------------------------------------------------- index_video_task

InBody(t) == task[t].pc = "running"

\* self.retry(exc=e): reschedules while request.retries < max_retries,
\* otherwise re-raises exc and the task ends in FAILURE
CanRetry(retries) == retries < MaxRetries

\* line 125, raise self.retry(exc=e, ...): the units after it
Retry(t) ==
    IF CanRetry(task[t].retries)
    THEN [task EXCEPT ![t].pc = "queued", ![t].retries = @ + 1,
                      ![t].result = "RETRY"]
    ELSE [task EXCEPT ![t].pc = "done", ![t].retries = 0,
                      ![t].result = "FAILURE"]

\* line 114, return: the units after it
Return(t) ==
    [task EXCEPT ![t].pc = "done", ![t].retries = 0, ![t].result = "SUCCESS"]

\* line 21: update_indexing_status(video_id, "processing"), the first
\* statement of an attempt
Begin(t) ==
    /\ task[t].pc = "queued"
    /\ DbWrite(UpdateIndexingStatus(rows, subs[t], "processing"))
    /\ task' = [task EXCEPT ![t].pc = "running"]
    /\ UNCHANGED <<pvars, avars, svars, qvars, configBound, subs, vectors, tfiles, job, batch>>

\* where an attempt stops: an exception raised in
\*   "encode"   lines 24-84, before vector_db.insert_video took effect
\*   "store"    line 87, store_temporal_features
\*   "cleanup"  lines 108-109, os.remove
\* or no exception ("return", line 114)
Stops == {"encode", "store", "cleanup", "return"}

\* the stops that lie after lines 75-84, vector_db.insert_video
AfterInsert == {"store", "cleanup", "return"}

\* the stops that lie after line 87, store_temporal_features
AfterStore == {"cleanup", "return"}

\* the stops that lie after line 105, update_video_metadata
AfterMeta == {"cleanup", "return"}

\* lines 75-87 up to the stop: the vector index and the temporal store
StoreWrites(t, stop) ==
    /\ vectors' = IF stop \in AfterInsert THEN InsertVideo(vectors, subs[t])
                  ELSE vectors
    /\ tfiles' = IF stop \in AfterStore THEN tfiles \cup {TemporalPath(subs[t])}
                 ELSE tfiles

\* line 105 up to the stop: the metadata upsert, committed or swallowed
MetaWrite(t, stop, ok) ==
    IF stop \in AfterMeta /\ ok
    THEN UpdateVideoMetadata(rows, subs[t], TemporalPath(subs[t]))
    ELSE rows

\* lines 23-125, the rest of an attempt: the body up to its stop, then
\* line 112 (status completed) and return, or the handler of lines 119-125
\* (status failed, self.retry).  Line 35 reads
\* config.ENABLE_SHOT_SEGMENTATION: tasks.py never imports config, so every
\* attempt raises NameError there unless the name is bound in the module.
\* Each of the two transactions commits or is swallowed.
Body(t) ==
    /\ task[t].pc = "running"
    /\ \E stop \in Stops, ok1, ok2 \in BOOLEAN :
        /\ ~configBound => stop = "encode"
        /\ stop \notin AfterMeta => ok1
        /\ (ok1 /\ ok2) \/ (~dbFault /\ (ok1 \/ ok2))
        /\ StoreWrites(t, stop)
        /\ rows' = IF ok2
                   THEN UpdateIndexingStatus(MetaWrite(t, stop, ok1), subs[t],
                            IF stop = "return" THEN "completed" ELSE "failed")
                   ELSE MetaWrite(t, stop, ok1)
        /\ dbFault' = (dbFault \/ ~ok1 \/ ~ok2)
        /\ task' = IF stop = "return" THEN Return(t) ELSE Retry(t)
    /\ UNCHANGED <<pvars, avars, svars, qvars, configBound, subs, job, batch>>

\* celery_app.py task_time_limit=600: the worker is killed while it
\* downloads or encodes (lines 24-72, the long-running part of the body),
\* no handler runs, the task ends in FAILURE
TimeLimit(t) ==
    /\ task[t].pc = "running"
    /\ task' = [task EXCEPT ![t].pc = "done", ![t].retries = 0,
                             ![t].result = "FAILURE"]
    /\ UNCHANGED <<pvars, avars, svars, qvars, configBound, subs, rows, vectors, tfiles, job, batch, dbFault>>

\* ----------------------------------------------------- batch_index_task

\* update_job_progress that adds to the stored counters
UpdateJobProgressAdd(j, completed, failed, status) ==
    IF j = NoJob THEN j
    ELSE [j EXCEPT !.completed = @ + completed, !.failed = @ + failed,
                   !.status = IF status = "" THEN @ ELSE status,
                   !.started = @ \/ status = "processing"]

\* postgres.py update_job_progress, the committed transaction
UpdateJobProgress(j, completed, failed, status) ==
    IF j = NoJob THEN j
    ELSE [j EXCEPT !.completed = completed, !.failed = failed,
                   !.status = IF status = "" THEN @ ELSE status,
                   !.started = @ \/ status = "processing"]

\* get_indexing_job returning None: no row, or the exception handler of
\* lines 230-232
None == [found |-> FALSE, status |-> "absent", done |-> 0, eta_null |-> TRUE]

\* postgres.py get_indexing_job.  eta_seconds starts as None (line 208) and
\* is computed only if job.started_at and job.completed > 0 (line 209).
\* The computation calls .total_seconds() on func.now() - job.started_at
\* (line 210); func.now() is the SQL function expression, the difference is
\* an SQL expression without that attribute, so the line raises and the
\* handler returns None.
GetIndexingJob(j) ==
    IF j = NoJob THEN None
    ELSE IF j.started /\ j.completed > 0 THEN None
    ELSE [found |-> TRUE, status |-> j.status, done |-> j.completed + j.failed,
          eta_null |-> TRUE]

\* a write to the indexing_jobs table, committed or swallowed
JobWrite(newJob) ==
    \E ok \in BOOLEAN :
        /\ ok \/ ~dbFault
        /\ job' = IF ok THEN newJob ELSE job
        /\ dbFault' = (dbFault \/ ~ok)

\* batch_index_task that enters the dispatch and monitoring loops whatever
\* the length of the list
BatchCreateLoops ==
    /\ batch.pc = "create"
    /\ JobWrite([total |-> Len(subs), completed |-> 0, failed |-> 0,
                 status |-> "queued", started |-> FALSE])
    /\ batch' = [batch EXCEPT !.pc = "dispatch"]
    /\ UNCHANGED <<pvars, avars, svars, qvars, configBound, subs, rows, vectors, tfiles, task>>

\* line 134: create_indexing_job(job_id, len(video_submissions))
BatchCreate ==
    /\ batch.pc = "create"
    /\ JobWrite([total |-> Len(subs), completed |-> 0, failed |-> 0,
                 status |-> "queued", started |-> FALSE])
    /\ batch' = [batch EXCEPT !.pc = IF Len(subs) = 0 THEN "finish" ELSE "dispatch"]
    /\ UNCHANGED <<pvars, avars, svars, qvars, configBound, subs, rows, vectors, tfiles, task>>

\* lines 136-144: index_video_task.delay(...) for each submission in turn;
\* the loop enqueues the first n units, all of them unless delay() raises
\* (broker unreachable), which leads to the handler
BatchDispatch ==
    /\ batch.pc = "dispatch"
    /\ \E n \in 0..Len(subs) :
        /\ task' = [t \in TaskIds |->
                       IF t <= n THEN [task[t] EXCEPT !.pc = "queued"] ELSE task[t]]
        /\ batch' = [batch EXCEPT !.pc = IF n = Len(subs) THEN "monitor" ELSE "error"]
    /\ UNCHANGED <<pvars, avars, svars, qvars, configBound, subs, rows, vectors, tfiles, job, dbFault>>

\* result.get(timeout=600): returns on SUCCESS, re-raises on FAILURE, and
\* raises TimeoutError while the unit is not ready
GetReturns(t) == task[t].result = "SUCCESS"

\* a monitoring loop that counts every awaited unit as completed, and a
\* unit whose result.get raised as failed in addition
BatchMonitorCountsTwice ==
    /\ batch.pc = "monitor"
    /\ \E ok \in {GetReturns(batch.i), FALSE} :
        LET c == batch.completed + 1
            f == IF ok THEN batch.failed ELSE batch.failed + 1
        IN /\ JobWrite(UpdateJobProgress(job, c, f, ""))
           /\ batch' = [batch EXCEPT !.completed = c, !.failed = f,
                           !.i = IF batch.i = Len(subs) THEN @ ELSE @ + 1,
                           !.pc = IF batch.i = Len(subs) THEN "finish" ELSE @]
    /\ UNCHANGED <<pvars, avars, svars, qvars, configBound, subs, rows, vectors, tfiles, task>>

\* lines 150-160: one iteration of the monitoring loop
BatchMonitor ==
    /\ batch.pc = "monitor"
    /\ \E ok \in {GetReturns(batch.i), FALSE} :
        LET c == IF ok THEN batch.completed + 1 ELSE batch.completed
            f == IF ok THEN batch.failed ELSE batch.failed + 1
        IN /\ JobWrite(UpdateJobProgress(job, c, f, ""))
           /\ batch' = [batch EXCEPT !.completed = c, !.failed = f,
                           !.i = IF batch.i = Len(subs) THEN @ ELSE @ + 1,
                           !.pc = IF batch.i = Len(subs) THEN "finish" ELSE @]
    /\ UNCHANGED <<pvars, avars, svars, qvars, configBound, subs, rows, vectors, tfiles, task>>

\* line 163
FinalStatus(failed) == IF failed = 0 THEN "completed" ELSE "completed_with_errors"

\* lines 163-171
BatchFinish ==
    /\ batch.pc = "finish"
    /\ JobWrite(UpdateJobProgress(job, batch.completed, batch.failed,
                                  FinalStatus(batch.failed)))
    /\ batch' = [batch EXCEPT !.pc = "done"]
    /\ UNCHANGED <<pvars, avars, svars, qvars, configBound, subs, rows, vectors, tfiles, task>>

\* line 175: the counters the handler stores
ErrorCounters == [completed |-> 0, failed |-> Len(subs)]

\* lines 173-176
BatchError ==
    /\ batch.pc = "error"
    /\ JobWrite(UpdateJobProgress(job, ErrorCounters.completed,
                                  ErrorCounters.failed, "failed"))
    /\ batch' = [batch EXCEPT !.pc = "done"]
    /\ UNCHANGED <<pvars, avars, svars, qvars, configBound, subs, rows, vectors, tfiles, task>>


\* ------------------------------------------ SearchService query cache

Threads == 1..NumThreads
Paths == {"p1", "p2"}

\* file contents: the first 1 MiB (head) and the rest (tail); the last is
\* a file that holds the bytes of the path string "p1" and is no video
Contents ==
    { [head |-> "h1", tail |-> "t1"], [head |-> "h1", tail |-> "t2"],
      [head |-> "h2", tail |-> "t1"], [head |-> "p1", tail |-> ""] }
Unreadable == [head |-> "", tail |-> "unreadable"]

\* encoder precondition (decodable video)
Decodable(c) == c \in Contents /\ c.head \in {"h1", "h2"}

\* hashlib.md5(bytes).hexdigest(): distinct byte strings, distinct digests
MD5(bytes) == <<"md5", bytes>>

\* search.py lines 74-77: digest of f.read(1024 * 1024)
Fingerprint(c) == MD5(c.head)

Keys == {MD5(b) : b \in {"h1", "h2", "p1", "p2"}}

NoFeatures == [content |-> Unreadable]
Corrupt == [content |-> Unreadable, corrupt |-> TRUE]

\* encoder_service.encode_video: a function of the whole content
EncodeVideo(c) == [content |-> c]

\* a cache key that is always the hash of the path string
QueryKeyPathOnly(fs, p) == MD5(p)

\* search.py lines 73-83: content hash, or path hash when open/read fails
QueryKey(fs, p) ==
    IF fs[p] # Unreadable THEN Fingerprint(fs[p]) ELSE MD5(p)

IdleThread == [pc |-> "idle", path |-> "", key |-> <<>>, feat |-> NoFeatures,
               ret |-> "none", from |-> "", unlinked |-> FALSE]

\* search.py lines 67-83: entry of _encode_query_video(video_path)
StartSearch(t, p) ==
    /\ thr[t].pc = "idle"
    /\ searches < MaxSearches
    /\ searches' = searches + 1
    /\ thr' = [thr EXCEPT ![t] = [pc |-> "mem", path |-> p,
                                  key |-> QueryKey(files, p),
                                  feat |-> NoFeatures, ret |-> "none",
                                  from |-> "", unlinked |-> FALSE]]
    /\ UNCHANGED <<pvars, avars, ivars, qvars, files, queryCache, diskCache, encoded>>

\* a memory tier lookup that never finds the key
MemCheckMiss(t) ==
    /\ thr[t].pc = "mem"
    /\ thr' = [thr EXCEPT ![t].pc = "disk"]
    /\ UNCHANGED <<pvars, avars, ivars, qvars, files, queryCache, diskCache, encoded, searches>>

\* search.py lines 84-87: memory tier lookup under cache_lock
MemCheck(t) ==
    /\ thr[t].pc = "mem"
    /\ thr' = IF queryCache[thr[t].key] # NoFeatures
              THEN [thr EXCEPT ![t].pc = "idle", ![t].ret = "features",
                               ![t].feat = queryCache[thr[t].key],
                               ![t].from = "memory"]
              ELSE [thr EXCEPT ![t].pc = "disk"]
    /\ UNCHANGED <<pvars, avars, ivars, qvars, files, queryCache, diskCache, encoded, searches>>

\* search.py lines 90-120: disk tier lookup; a file that does not parse is
\* unlinked and the call falls through to the encoder
DiskCheck(t) ==
    /\ thr[t].pc = "disk"
    /\ LET k == thr[t].key IN
       IF diskCache[k] = NoFeatures
       THEN /\ thr' = [thr EXCEPT ![t].pc = "encode"]
            /\ UNCHANGED <<queryCache, diskCache>>
       ELSE IF diskCache[k] = Corrupt
       THEN /\ diskCache' = [diskCache EXCEPT ![k] = NoFeatures]
            /\ thr' = [thr EXCEPT ![t].pc = "encode", ![t].unlinked = TRUE]
            /\ UNCHANGED queryCache
       ELSE /\ queryCache' = [queryCache EXCEPT ![k] = diskCache[k]]
            /\ thr' = [thr EXCEPT ![t].pc = "idle", ![t].ret = "features",
                                  ![t].feat = diskCache[k], ![t].from = "disk"]
            /\ UNCHANGED diskCache
    /\ UNCHANGED <<pvars, avars, ivars, qvars, files, encoded, searches>>

\* search.py line 124: encoder_service.encode_video(video_path); it raises
\* on a file that is unreadable or no video, and the call ends
EncodeQuery(t) ==
    /\ thr[t].pc = "encode"
    /\ IF Decodable(files[thr[t].path])
       THEN /\ thr' = [thr EXCEPT ![t].pc = "save",
                                  ![t].feat = EncodeVideo(files[thr[t].path])]
            /\ encoded' = [encoded EXCEPT ![thr[t].key] = @ + 1]
       ELSE /\ thr' = [thr EXCEPT ![t].pc = "idle", ![t].ret = "raised"]
            /\ UNCHANGED encoded
    /\ UNCHANGED <<pvars, avars, ivars, qvars, files, queryCache, diskCache, searches>>

\* search.py lines 127-138: np.savez to the disk tier; a failure is logged
\* and may leave a partial file
DiskSave(t) ==
    /\ thr[t].pc = "save"
    /\ \E f \in {thr[t].feat, diskCache[thr[t].key], Corrupt} :
          diskCache' = [diskCache EXCEPT ![thr[t].key] = f]
    /\ thr' = [thr EXCEPT ![t].pc = "store"]
    /\ UNCHANGED <<pvars, avars, ivars, qvars, files, queryCache, encoded, searches>>

\* search.py lines 141-144: memory tier insert under cache_lock; return
MemStore(t) ==
    /\ thr[t].pc = "store"
    /\ queryCache' = [queryCache EXCEPT ![thr[t].key] = thr[t].feat]
    /\ thr' = [thr EXCEPT ![t].pc = "idle", ![t].ret = "features",
                          ![t].from = "encoder"]
    /\ UNCHANGED <<pvars, avars, ivars, qvars, files, diskCache, encoded, searches>>

\* a fresh deployment: empty memory tier (search.py line 22), empty disk
\* tier; the query files are any of the contents, or unreadable
SearchInit ==
    /\ files \in [Paths -> Contents \cup {Unreadable}]
    /\ queryCache = [k \in Keys |-> NoFeatures]
    /\ diskCache = [k \in Keys |-> NoFeatures]
    /\ thr = [t \in Threads |-> IdleThread]
    /\ searches = 0
    /\ encoded = [k \in Keys |-> 0]

\* the search service at rest
SearchIdle ==
    /\ files = [p \in Paths |-> Unreadable]
    /\ queryCache = [k \in Keys |-> NoFeatures]
    /\ diskCache = [k \in Keys |-> NoFeatures]
    /\ thr = [t \in Threads |-> IdleThread]
    /\ searches = 0
    /\ encoded = [k \in Keys |-> 0]

\* no batch, no unit, empty stores
StoresIdle ==
    /\ subs = <<>>
    /\ rows = [v \in Videos |-> NoRow]
    /\ vectors = [v \in Videos |-> 0]
    /\ tfiles = {}
    /\ task = [t \in TaskIds |-> [pc |-> "none", retries |-> 0,
                                  result |-> "PENDING"]]
    /\ job = NoJob
    /\ batch = [pc |-> "done", i |-> 1, completed |-> 0, failed |-> 0]
    /\ dbFault = FALSE

\* the indexing pipeline at rest
IndexIdle ==
    /\ configBound = TRUE
    /\ StoresIdle

\* search.py lines 25-65: a search call that has not been made
IdleReq == [pc |-> "idle", topk |-> 0, rerank |-> FALSE, cands |-> <<>>,
            i |-> 1, results |-> <<>>, partial |-> FALSE]

\* no search call in progress, no temporal file being written
QueryIdle ==
    /\ req = [t \in Threads |-> IdleReq]
    /\ writing = {}

\* the temporal matrices the encoder produces, named by how they compare
\* with the query's matrix: the same motion, or another one
Matrices == {"same", "other"}

\* the search pipeline at rest
QueryRest ==
    /\ QueryIdle
    /\ tmat = [v \in Videos |-> "same"]

\* ------------------------------------------------ SearchService.search

\* the order of the video ids (lexicographic)
VideoOrder == <<"v1", "v2">>

\* the similarity the vector index reports for a video, in thousandths
GlobalScore(v) == IF v = "v1" THEN 500 ELSE 850

\* search.py line 183: _compute_dtw_distance(query_temporal, candidate_temporal)
DtwDistance(m) == IF m = "same" THEN 0 ELSE 1

\* search.py line 184: dtw_similarity = 1.0 / (1.0 + dtw_dist), in hundredths
DtwSimilarity(m) == 100 \div (1 + DtwDistance(m))

\* search.py lines 187-191: cosine of the time-averaged features, in
\* hundredths
CosineSim(m) == IF m = "same" THEN 100 ELSE 50

\* search.py lines 194-196: similarity of the temporal variances, in
\* hundredths
VarSimilarity(m) == IF m = "same" THEN 100 ELSE 0

\* search.py lines 199-203: temporal_score of a video's stored matrix
\* against the query's, in thousandths
TemporalScore(v) ==
    DtwWeight * DtwSimilarity(tmat[v]) + CosineWeight * CosineSim(tmat[v])
        + VarWeight * VarSimilarity(tmat[v])

\* a fusion with the two weights exchanged
CombinedSwapped(temporal, global) ==
    (GlobalWeight * temporal + TemporalWeight * global)
        \div (TemporalWeight + GlobalWeight)

\* search.py line 206: 0.7 * temporal_score + 0.3 * similarity_score
Combined(temporal, global) ==
    (TemporalWeight * temporal + GlobalWeight * global)
        \div (TemporalWeight + GlobalWeight)

\* list.sort(key=score, reverse=True) inserts c behind the elements that
\* score as much or more
RECURSIVE InsertDesc(_, _)
InsertDesc(sorted, c) ==
    IF sorted = <<>> THEN <<c>>
    ELSE IF Head(sorted).score >= c.score
         THEN <<Head(sorted)>> \o InsertDesc(Tail(sorted), c)
         ELSE <<c>> \o sorted

\* search.py line 223: reranked_candidates.sort(key=score, reverse=True),
\* a stable sort by descending score
RECURSIVE SortDesc(_)
SortDesc(cs) ==
    IF cs = <<>> THEN <<>>
    ELSE InsertDesc(SortDesc(SubSeq(cs, 1, Len(cs) - 1)), cs[Len(cs)])

\* candidates[:n]
Take(cs, n) == SubSeq(cs, 1, IF n < Len(cs) THEN n ELSE Len(cs))

\* vector_db.search_similar: the entries of the index in descending
\* similarity, ties in id order, at most k of them
SearchSimilar(vec, k) ==
    LET all == [i \in 1..Len(VideoOrder) |->
                   [id |-> VideoOrder[i], score |-> GlobalScore(VideoOrder[i])]]
    IN Take(SortDesc(SelectSeq(all, LAMBDA c : vec[c.id] > 0)), k)

\* the requests: top_k and options.enable_reranking
TopKs == {0, 1, 2}

\* search.py lines 25-33: search(request) is entered
Request(t, topk, rerank) ==
    /\ req[t].pc \in {"idle", "done", "raised"}
    /\ thr[t].pc = "idle"
    /\ searches < MaxSearches
    /\ req' = [req EXCEPT ![t] = [IdleReq EXCEPT !.pc = "encode", !.topk = topk,
                                                 !.rerank = rerank]]
    /\ thr' = [thr EXCEPT ![t] = IdleThread]
    /\ UNCHANGED <<pvars, avars, ivars, files, queryCache, diskCache, searches, encoded, writing,
                   tmat>>

\* search.py line 34: the call of _encode_query_video(request.query_video_url)
CallEncode(t, p) ==
    /\ req[t].pc = "encode"
    /\ thr[t] = IdleThread
    /\ StartSearch(t, p)

\* search.py lines 37-52: _vector_search with config.SEARCH_TOP_K; without
\* re-ranking, or without candidates, candidates[:request.top_k] is returned
VectorSearch(t) ==
    /\ req[t].pc = "encode"
    /\ thr[t].pc = "idle"
    /\ thr[t].ret = "features"
    /\ LET cands == SearchSimilar(vectors, SearchTopK) IN
       req' = IF req[t].rerank /\ Len(cands) > 0
              THEN [req EXCEPT ![t].pc = "rank", ![t].cands = cands, ![t].i = 1]
              ELSE [req EXCEPT ![t].pc = "done", ![t].cands = cands,
                               ![t].results = Take(cands, req[t].topk)]
    /\ UNCHANGED <<pvars, avars, ivars, svars, writing, tmat>>

\* search.py lines 63-65: the exception of _encode_query_video is re-raised
SearchFails(t) ==
    /\ req[t].pc = "encode"
    /\ thr[t].pc = "idle"
    /\ thr[t].ret = "raised"
    /\ req' = [req EXCEPT ![t].pc = "raised"]
    /\ UNCHANGED <<pvars, avars, ivars, svars, writing, tmat>>

\* a re-rank loop that scores a candidate without a temporal file as if its
\* temporal similarity were zero
RerankZeroTemporal(t) ==
    /\ req[t].pc = "rank"
    /\ LET c == req[t].cands[req[t].i]
           path == TemporalPath(c.id)
           exists == path \in tfiles \cup writing
           loads == path \in tfiles
           new == IF exists /\ loads
                  THEN [c EXCEPT !.score = Combined(TemporalScore(c.id), c.score)]
                  ELSE IF ~exists
                  THEN [c EXCEPT !.score = Combined(0, c.score)]
                  ELSE c
           cands == [req[t].cands EXCEPT ![req[t].i] = new]
           last == req[t].i = Len(cands)
       IN req' = [req EXCEPT ![t].cands = cands,
                             ![t].partial = @ \/ (exists /\ ~loads),
                             ![t].i = IF last THEN @ ELSE @ + 1,
                             ![t].pc = IF last THEN "done" ELSE @,
                             ![t].results = IF last
                                            THEN Take(SortDesc(cands), req[t].topk)
                                            ELSE @]
    /\ UNCHANGED <<pvars, avars, ivars, svars, writing, tmat>>

\* search.py lines 172-226: one iteration of the re-rank loop.  The
\* candidate's file is looked up; np.load of a file that np.save has not
\* completed raises and the candidate is appended as it is (lines 218-220).
\* After the last candidate: sort, truncate to top_k, return.
Rerank(t) ==
    /\ req[t].pc = "rank"
    /\ LET c == req[t].cands[req[t].i]
           path == TemporalPath(c.id)
           exists == path \in tfiles \cup writing
           loads == path \in tfiles
           new == IF exists /\ loads
                  THEN [c EXCEPT !.score = Combined(TemporalScore(c.id), c.score)]
                  ELSE c
           cands == [req[t].cands EXCEPT ![req[t].i] = new]
           last == req[t].i = Len(cands)
       IN req' = [req EXCEPT ![t].cands = cands,
                             ![t].partial = @ \/ (exists /\ ~loads),
                             ![t].i = IF last THEN @ ELSE @ + 1,
                             ![t].pc = IF last THEN "done" ELSE @,
                             ![t].results = IF last
                                            THEN Take(SortDesc(cands), req[t].topk)
                                            ELSE @]
    /\ UNCHANGED <<pvars, avars, ivars, svars, writing, tmat>>

\* tasks.py line 228, np.save(feature_path, ...) of an index_video_task
\* that has inserted the video's vector: the file is opened for writing,
\* which truncates what it held
SaveOpen(v) ==
    /\ vectors[v] > 0
    /\ TemporalPath(v) \notin writing
    /\ writing' = writing \cup {TemporalPath(v)}
    /\ tfiles' = tfiles \ {TemporalPath(v)}
    /\ UNCHANGED <<pvars, avars, svars, req, tmat, configBound, subs, rows, vectors, task, job,
                   batch, dbFault>>

\* tasks.py lines 228-230: np.save has written the matrix and closed the file
SaveClose(v) ==
    /\ TemporalPath(v) \in writing
    /\ writing' = writing \ {TemporalPath(v)}
    /\ tfiles' = tfiles \cup {TemporalPath(v)}
    /\ UNCHANGED <<pvars, avars, svars, req, tmat, configBound, subs, rows, vectors, task, job,
                   batch, dbFault>>

\* what the stores hold for a video when the searches start:
\*   "fresh"       never indexed
\*   "indexed"     index_video_task completed
\*   "failed"      vector inserted, store_temporal_features raised
\*   "unrecorded"  indexed while the database was down: every write of the
\*                 attempt was swallowed by postgres.py
StoreKinds == {"fresh", "indexed", "failed", "unrecorded"}

\* the stores before the searches, the pipeline at rest
QueryInit ==
    /\ \E kind \in [Videos -> StoreKinds] :
        /\ vectors = [v \in Videos |-> IF kind[v] = "fresh" THEN 0 ELSE 1]
        /\ tfiles = {TemporalPath(v) :
                        v \in {w \in Videos : kind[w] \in {"indexed", "unrecorded"}}}
        /\ rows = [v \in Videos |->
                     IF kind[v] = "indexed"
                     THEN [status |-> "completed", path |-> TemporalPath(v)]
                     ELSE IF kind[v] = "failed"
                     THEN [status |-> "failed", path |-> NoPath]
                     ELSE NoRow]
    /\ tmat \in [Videos -> Matrices]
    /\ configBound = TRUE
    /\ subs = <<>>
    /\ task = [t \in TaskIds |-> [pc |-> "none", retries |-> 0,
                                  result |-> "PENDING"]]
    /\ job = NoJob
    /\ batch = [pc |-> "done", i |-> 1, completed |-> 0, failed |-> 0]
    /\ dbFault = FALSE

\* the query files of the searches: one video, one path that cannot be read
QueryFiles ==
    /\ files = [p \in Paths |-> IF p = "p1" THEN [head |-> "h1", tail |-> "t1"]
                                ELSE Unreadable]
    /\ queryCache = [k \in Keys |-> NoFeatures]
    /\ diskCache = [k \in Keys |-> NoFeatures]
    /\ thr = [t \in Threads |-> IdleThread]
    /\ searches = 0
    /\ encoded = [k \in Keys |-> 0]

\* ------------------------------- index_video_task, the optional stages

\* the attempt before line 33: the flags of config.py lines 68-69, whether
\* tasks.py has the two services among its globals, nothing detected yet
PreIdle ==
    pre = [pc |-> "idle", enableSeg |-> FALSE, enableRoi |-> FALSE,
           segBound |-> FALSE, roiBound |-> FALSE, roi |-> FALSE,
           caught |-> {}, full |-> FALSE, raised |-> ""]

\* lines 33-40, optional shot segmentation.  The condition of line 35 is
\* evaluated outside the try of line 36: with `config` unbound it raises
\* NameError, which the handler of line 119 turns into a failed attempt.
\* An exception of segment_for_indexing is logged (lines 39-40).
PreSegment ==
    /\ pre.pc = "seg"
    /\ IF ~configBound
       THEN pre' = [pre EXCEPT !.pc = "failed", !.raised = "config"]
       ELSE IF pre.enableSeg /\ pre.segBound
       THEN \E ok \in BOOLEAN :
               pre' = [pre EXCEPT !.pc = "roi",
                                  !.caught = IF ok THEN @
                                             ELSE @ \cup {"segmentation"}]
       ELSE pre' = [pre EXCEPT !.pc = "roi"]
    /\ UNCHANGED <<ivars, svars, qvars, avars>>

\* what detect_primary_subject does: it finds a subject, finds none, or
\* raises
Detections == {"subject", "nothing", "raise"}

\* lines 42-50, optional ROI detection; an exception of
\* detect_primary_subject is logged (lines 49-50)
PreRoi ==
    /\ pre.pc = "roi"
    /\ IF pre.enableRoi /\ pre.roiBound
       THEN \E r \in Detections :
               pre' = [pre EXCEPT !.pc = "encode",
                                  !.roi = (r = "subject"),
                                  !.caught = IF r = "raise" THEN @ \cup {"roi"}
                                             ELSE @]
       ELSE pre' = [pre EXCEPT !.pc = "encode"]
    /\ UNCHANGED <<ivars, svars, qvars, avars>>

\* what extract_roi_frames does: it returns frames, returns None, or raises
Extractions == {"frames", "none", "raise"}

\* lines 52-69: with a detected subject extract_roi_frames is called and
\* its exception is logged (lines 65-67); every branch calls
\* encoder_service.encode_video(local_path), the full video.  An exception
\* of the encoder reaches the handler of line 119.
PreEncode ==
    /\ pre.pc = "encode"
    /\ \E x \in Extractions, ok \in BOOLEAN :
        LET caught == IF pre.roi /\ pre.enableRoi /\ x = "raise"
                      THEN pre.caught \cup {"extraction"} ELSE pre.caught
        IN pre' = IF ok
                  THEN [pre EXCEPT !.pc = "stores", !.caught = caught,
                                   !.full = TRUE]
                  ELSE [pre EXCEPT !.pc = "failed", !.caught = caught,
                                   !.raised = "encoder"]
    /\ UNCHANGED <<ivars, svars, qvars, avars>>

\* lines 71-125: the store writes and the return, or an exception of a
\* store write
PreStores ==
    /\ pre.pc = "stores"
    /\ \E ok \in BOOLEAN :
        pre' = IF ok THEN [pre EXCEPT !.pc = "returned"]
               ELSE [pre EXCEPT !.pc = "failed", !.raised = "store"]
    /\ UNCHANGED <<ivars, svars, qvars, avars>>

\* an attempt about to enter line 33, under every configuration
PreInit ==
    /\ configBound \in BOOLEAN
    /\ StoresIdle
    /\ \E es, er, sb, rb \in BOOLEAN :
        pre = [pc |-> "seg", enableSeg |-> es, enableRoi |-> er,
               segBound |-> sb, roiBound |-> rb, roi |-> FALSE,
               caught |-> {}, full |-> FALSE, raised |-> ""]

\* ------------------------------------------- AnomalyDetectionService

\* anomaly_detection.py line 20: self.baseline_features = {}
NoBaseline == [num_videos |-> 0, features |-> <<>>]

\* no establish_baseline call yet
AnomIdle ==
    anom = [baseline |-> NoBaseline, pc |-> "idle", videos |-> <<>>, i |-> 1,
            features |-> <<>>, calls |-> 0]

\* the lists normal_videos may be
VideoLists == UNION {[1..n -> Paths] : n \in 0..MaxVideos}

\* lines 22-36: establish_baseline(normal_videos) is entered
EstablishBaseline(vs) ==
    /\ anom.pc \in {"idle", "returned", "raised"}
    /\ anom.calls < MaxCalls
    /\ anom' = [anom EXCEPT !.pc = "loop", !.videos = vs, !.i = 1,
                            !.features = <<>>, !.calls = @ + 1]
    /\ UNCHANGED <<ivars, svars, qvars, pvars>>

\* lines 38-55, one iteration of the loop: the video is encoded and its
\* temporal features are appended; a video the encoder raises on is
\* logged and skipped
BaselineLoop ==
    /\ anom.pc = "loop"
    /\ anom.i <= Len(anom.videos)
    /\ LET c == files[anom.videos[anom.i]] IN
       anom' = [anom EXCEPT !.i = @ + 1,
                            !.features = IF Decodable(c)
                                         THEN Append(@, EncodeVideo(c))
                                         ELSE @]
    /\ UNCHANGED <<ivars, svars, qvars, pvars>>

\* the statistics of lines 61-67 (means and standard deviations are
\* functions of the features collected)
BaselineStatsAll(videos, features) ==
    [num_videos |-> Len(videos), features |-> features]

\* lines 61-67: the means and standard deviations, as the features they
\* are computed from, and num_videos = len(all_temporal_features)
BaselineStats(videos, features) ==
    [num_videos |-> Len(features), features |-> features]

\* lines 57-73: ValueError without valid videos, before baseline_features
\* is assigned; otherwise the statistics are stored and returned
BaselineFinish ==
    /\ anom.pc = "loop"
    /\ anom.i > Len(anom.videos)
    /\ anom' = IF anom.features = <<>>
               THEN [anom EXCEPT !.pc = "raised"]
               ELSE [anom EXCEPT !.pc = "returned",
                                 !.baseline = BaselineStats(anom.videos,
                                                            anom.features)]
    /\ UNCHANGED <<ivars, svars, qvars, pvars>>

\* ------------------------------------------------------- specification

\* the batches, up to the naming of the videos: the first submission, if
\* any, names "v1"
SubLists ==
    {s \in UNION {[1..n -> Videos] : n \in 0..MaxSubs} :
        Len(s) > 0 => s[1] = "v1"}

IndexInit ==
    /\ configBound \in BOOLEAN
    /\ subs \in SubLists
    /\ rows = [v \in Videos |-> NoRow]
    /\ vectors = [v \in Videos |-> 0]
    /\ tfiles = {}
    /\ task = [t \in TaskIds |-> [pc |-> "none", retries |-> 0,
                                  result |-> "PENDING"]]
    /\ job = NoJob
    /\ batch = [pc |-> "create", i |-> 1, completed |-> 0, failed |-> 0]
    /\ dbFault = FALSE

TaskNext(t) ==
    \/ Begin(t)
    \/ Body(t)
    \/ TimeLimit(t)

IndexNext ==
    \/ \E t \in TaskIds : TaskNext(t)
    \/ BatchCreate
    \/ BatchDispatch
    \/ BatchMonitor
    \/ BatchFinish
    \/ BatchError

IndexStart == IndexInit /\ SearchIdle /\ QueryRest /\ PreIdle /\ AnomIdle

IndexSpec == IndexStart /\ [][IndexNext]_vars

SearchNext ==
    \E t \in Threads :
        \/ \E p \in Paths : StartSearch(t, p)
        \/ MemCheck(t)
        \/ DiskCheck(t)
        \/ EncodeQuery(t)
        \/ DiskSave(t)
        \/ MemStore(t)

SearchStart == SearchInit /\ IndexIdle /\ QueryRest /\ PreIdle /\ AnomIdle

\* the request thread whose search calls QuerySpec follows
Caller == CHOOSE t \in Threads : \A u \in Threads : t <= u

QueryNext ==
    \/ \E t \in {Caller} :
          \/ \E k \in TopKs, r \in BOOLEAN : Request(t, k, r)
          \/ \E p \in Paths : CallEncode(t, p)
          \/ MemCheck(t)
          \/ DiskCheck(t)
          \/ EncodeQuery(t)
          \/ DiskSave(t)
          \/ MemStore(t)
          \/ VectorSearch(t)
          \/ SearchFails(t)
          \/ Rerank(t)
    \/ \E v \in Videos : SaveOpen(v) \/ SaveClose(v)

QueryStart == QueryInit /\ QueryFiles /\ QueryIdle /\ PreIdle /\ AnomIdle

QuerySpec == QueryStart /\ [][QueryNext]_vars

PreNext ==
    \/ PreSegment
    \/ PreRoi
    \/ PreEncode
    \/ PreStores

PreStart == PreInit /\ SearchIdle /\ QueryRest /\ AnomIdle

PreSpec == PreStart /\ [][PreNext]_vars

BaselineNext ==
    \/ \E vs \in VideoLists : EstablishBaseline(vs)
    \/ BaselineLoop
    \/ BaselineFinish

BaselineStart == SearchInit /\ IndexIdle /\ QueryRest /\ PreIdle /\ AnomIdle

BaselineSpec == BaselineStart /\ [][BaselineNext]_vars

SearchSpec == SearchStart /\ [][SearchNext]_vars

\* ------------------------------------------------------------ properties

TerminalVideo == {"completed", "failed"}
TerminalJob == {"completed", "completed_with_errors", "failed"}

NoDuplicates == \A i, k \in 1..Len(subs) : subs[i] = subs[k] => i = k

TasksOf(v) == {t \in 1..Len(subs) : subs[t] = v}

\* batch_index_task and every unit it dispatched have ended
Quiescent ==
    /\ batch.pc = "done"
    /\ \A t \in TaskIds : task[t].pc \in {"none", "done"}

C4_JobCounters ==
    job # NoJob =>
        /\ 0 <= job.completed + job.failed
        /\ job.completed + job.failed <= job.total
        /\ job.status \in TerminalJob => job.completed + job.failed = job.total

\* C4 witness: a finished job that counted a success and a failure
C4_Witness ==
    /\ job.status = "completed_with_errors"
    /\ job.completed >= 1
    /\ job.failed >= 1
    /\ job.completed + job.failed = job.total

\* C5 (I3): the stored completed + failed equals the number of the job's
\* videos whose status is terminal, and the stored completed equals the
\* number whose status is completed.
C5_CountersMatchVideos ==
    job # NoJob =>
        /\ job.completed + job.failed =
             Cardinality({i \in 1..Len(subs) : rows[subs[i]].status \in TerminalVideo})
        /\ job.completed =
             Cardinality({i \in 1..Len(subs) : rows[subs[i]].status = "completed"})

\* the status changes the per-video state machine allows (a video without
\* a row counts as pending)
AllowedChange(old, new) ==
    \/ old = new
    \/ old \in {"absent", "pending"} /\ new = "processing"
    \/ old = "processing" /\ new \in TerminalVideo

\* C6 (per-video state machine): within the processing of one submission
\* the only status changes are pending->processing, processing->completed
\* and processing->failed.  Stated for batches that name each video once
\* and for steps before any database error.
C6_StatusTransitions ==
    [][(NoDuplicates /\ ~dbFault') =>
          \A v \in Videos : AllowedChange(rows[v].status, rows'[v].status)]_vars

\* C7 (termination): when a unit has ended (no attempt of it will run
\* again) its video's status is completed or failed.  Stated for batches
\* that name each video once.
C7_EndsTerminal ==
    NoDuplicates =>
        \A t \in 1..Len(subs) :
            task[t].pc = "done" => rows[subs[t]].status \in TerminalVideo

\* what the three stores hold for a video that was indexed
Indexed(v) ==
    /\ vectors[v] = 1
    /\ TemporalPath(v) \in tfiles
    /\ rows[v] = [status |-> "completed", path |-> TemporalPath(v)]

Orphaned(v) ==
    /\ rows[v].status # "completed"
    /\ vectors[v] > 0 \/ TemporalPath(v) \in tfiles

C3_AtMostOneEncode ==
    \A k \in Keys : encoded[k] <= 1

\* features held under key k come from content whose fingerprint is k
SoundEntry(k, f) == Fingerprint(f.content) = k

\* C10 (I4, cache soundness): every memory entry and every parseable disk
\* file under fingerprint f holds features of content whose fingerprint is
\* f, and a call returns only features of content whose fingerprint is
\* that of its query file.
C10_CacheSound ==
    /\ \A k \in Keys :
          /\ queryCache[k] # NoFeatures => SoundEntry(k, queryCache[k])
          /\ diskCache[k] \notin {NoFeatures, Corrupt} => SoundEntry(k, diskCache[k])
    /\ \A t \in Threads :
          thr[t].ret = "features" =>
              /\ files[thr[t].path] # Unreadable
              /\ Fingerprint(thr[t].feat.content) = Fingerprint(files[thr[t].path])

\* C10 witness: one call returned features from a cache tier while another
\* call, whose file cannot be read, ran under the path-hash key
C10_Witness ==
    \E t, u \in Threads :
        /\ thr[t].ret = "features"
        /\ thr[t].from \in {"memory", "disk"}
        /\ thr[u].path \in Paths
        /\ files[thr[u].path] = Unreadable
        /\ thr[u].key = MD5(thr[u].path)
        /\ thr[u].ret = "raised"

EncoderInvoked(t) ==
    \/ thr[t].pc \in {"save", "store"}
    \/ thr[t].from = "encoder"
    \/ thr[t].ret = "raised"

\* C12 (top_k = 0): a search with top_k = 0 returns an empty result list
\* and invokes neither the encoder nor the vector index.
C12_TopKZeroNoEncode ==
    \A t \in Threads :
        (req[t].pc # "idle" /\ req[t].topk = 0) =>
            /\ ~EncoderInvoked(t)
            /\ req[t].pc # "rank"
            /\ req[t].cands = <<>>
            /\ req[t].pc = "done" => req[t].results = <<>>

\* the video ids of the response of the search call of thread t
ResultIds(t) == {req[t].results[i].id : i \in 1..Len(req[t].results)}

\* C13 (reconciliation on read): no search response contains a result
\* whose video id has no metadata row.
C13_ResultsHaveRows ==
    \A t \in Threads :
        req[t].pc = "done" => \A v \in ResultIds(t) : rows[v] # NoRow

Current(t) == req[t].cands[req[t].i]

\* C17 (missing temporal file): a re-rank iteration whose candidate has no
\* temporal file leaves that candidate in the list with the score the
\* vector index gave it; the iteration changes no other candidate, drops
\* none and does not fail, so the loop goes on to the next candidate or to
\* the sorted result.
C17_AbsentKeepsScore ==
    [][\A t \in Threads :
        (req[t].pc = "rank" /\ req'[t] # req[t]) =>
            /\ req'[t].pc \in {"rank", "done"}
            /\ Len(req'[t].cands) = Len(req[t].cands)
            /\ \A k \in 1..Len(req[t].cands) :
                   k # req[t].i => req'[t].cands[k] = req[t].cands[k]
            /\ TemporalPath(Current(t).id) \notin tfiles \cup writing =>
                   req'[t].cands[req[t].i] =
                       [id |-> Current(t).id, score |-> GlobalScore(Current(t).id)]
            /\ req'[t].cands[req[t].i].id = Current(t).id]_vars

C17_Witness ==
    \E t \in Threads :
        /\ req[t].pc = "done"
        /\ req[t].rerank
        /\ \E a, b \in 1..Len(req[t].cands) :
            /\ TemporalPath(req[t].cands[a].id) \notin tfiles \cup writing
            /\ req[t].cands[a].score = GlobalScore(req[t].cands[a].id)
            /\ TemporalPath(req[t].cands[b].id) \in tfiles
            /\ req[t].cands[b].score =
                   Combined(TemporalScore(req[t].cands[b].id),
                            GlobalScore(req[t].cands[b].id))

\* C21 (score fusion): a re-rank iteration whose candidate has a temporal
\* matrix gives it the score 0.7 (0.5 s_dtw + 0.3 s_cos + 0.2 s_var)
\* + 0.3 s_global, with s_global the score the vector index returned and
\* s_dtw = 1 / (1 + d_DTW); the returned list carries these scores.  Scores
\* are in thousandths, the three similarities in hundredths.
C21_FusedScore ==
    [][\A t \in Threads :
        (req[t].pc = "rank" /\ req'[t] # req[t]) =>
            /\ TemporalPath(Current(t).id) \in tfiles =>
                   LET m == tmat[Current(t).id] IN
                   /\ DtwSimilarity(m) * (1 + DtwDistance(m)) = 100
                   /\ 10 * req'[t].cands[req[t].i].score =
                          7 * (5 * DtwSimilarity(m) + 3 * CosineSim(m)
                                 + 2 * VarSimilarity(m))
                          + 3 * GlobalScore(Current(t).id)
            /\ req'[t].pc = "done" =>
                   \A k \in 1..Len(req'[t].results) :
                       \E j \in 1..Len(req'[t].cands) :
                           req'[t].results[k] = req'[t].cands[j]]_vars

\* C21 witness: a returned list whose two candidates were both fused, one
\* with each kind of matrix
C21_Witness ==
    \E t \in Threads :
        /\ req[t].pc = "done"
        /\ req[t].rerank
        /\ Len(req[t].results) = 2
        /\ \E a, b \in 1..2 :
            /\ tmat[req[t].results[a].id] = "same"
            /\ tmat[req[t].results[b].id] = "other"
            /\ \A k \in {a, b} :
                   req[t].results[k].score =
                       Combined(TemporalScore(req[t].results[k].id),
                                GlobalScore(req[t].results[k].id))
                   /\ req[t].results[k].score # GlobalScore(req[t].results[k].id)

C23_DecodeErrorNoRetry ==
    [][\A t \in TaskIds :
        ( /\ InBody(t)
          /\ task'[t] # task[t]
          /\ vectors[subs[t]] = 0
          /\ vectors'[subs[t]] = 0 )
        => (task'[t].pc = "done" /\ task'[t].result = "FAILURE")]_vars

\* C24 (job processing): a job with total > 0 whose units were enqueued
\* becomes completed or completed_with_errors only from status processing,
\* with started_at set.
C24_ProcessingBeforeTerminal ==
    [][( /\ job.total > 0
         /\ job.status \notin TerminalJob
         /\ job'.status \in {"completed", "completed_with_errors"} )
       => (job.status = "processing" /\ job.started)]_vars

\* the place of a video id in the lexicographic order of the ids
IdRank(v) == CHOOSE i \in 1..Len(VideoOrder) : VideoOrder[i] = v

\* C25 (result order): the list _rerank_results returns is in descending
\* order of the final score, and candidates of equal final score are in
\* ascending order of their video ids.
C25_SortedTiesById ==
    \A t \in Threads :
        (req[t].pc = "done" /\ req[t].rerank) =>
            \A k \in 1..(Len(req[t].results) - 1) :
                \/ req[t].results[k].score > req[t].results[k + 1].score
                \/ /\ req[t].results[k].score = req[t].results[k + 1].score
                   /\ IdRank(req[t].results[k].id) < IdRank(req[t].results[k + 1].id)

\* C26 (corrupt disk file): when a call of _encode_query_video that found
\* an unparseable disk file and deleted it returns, the disk tier and the
\* memory tier both hold the encoding the call made.
C26_CorruptFileReplaced ==
    [][\A t \in Threads :
        (thr[t].pc = "store" /\ thr'[t].pc = "idle" /\ thr[t].unlinked) =>
            /\ queryCache'[thr[t].key] = thr[t].feat
            /\ diskCache'[thr[t].key] = thr[t].feat]_vars

C29_CountersMonotone ==
    [][/\ job # NoJob =>
            (job'.completed >= job.completed /\ job'.failed >= job.failed)
       /\ (batch.pc = "monitor" /\ batch' # batch) =>
            /\ batch'.completed >= batch.completed
            /\ batch'.failed >= batch.failed
            /\ batch'.completed + batch'.failed
                   = batch.completed + batch.failed + 1
            /\ ~dbFault' =>
                   /\ job'.completed >= job.completed
                   /\ job'.failed >= job.failed
                   /\ job'.completed + job'.failed
                          = job.completed + job.failed + 1]_vars

\* C29 witness: the loop has stored a success and then a failure
C29_Witness ==
    /\ ~dbFault
    /\ batch.pc = "finish"
    /\ job.status = "queued"
    /\ job.completed = 1
    /\ job.failed = 1

\* C27 (best-effort stages): an attempt of index_video_task fails only by
\* an exception of the encoder or of a store write, never in its optional
\* stages; an attempt that reaches the store writes has encoded the full
\* video, whatever the optional stages raised.
C27_OptionalStagesBestEffort ==
    /\ pre.pc = "failed" => pre.raised \in {"encoder", "store"}
    /\ pre.pc \in {"stores", "returned"} => pre.full

\* the videos of a call that the encoder accepts
Encodable == {k \in 1..Len(anom.videos) : Decodable(files[anom.videos[k]])}

\* C30 (baseline): a call of establish_baseline none of whose videos could
\* be encoded raises and leaves the stored baseline as it was; a call that
\* succeeds stores num_videos equal to the number of its videos that were
\* encoded.
C30_BaselineKeptOrCounted ==
    [][(anom.pc = "loop" /\ anom'.pc # "loop") =>
        IF Encodable = {}
        THEN anom'.pc = "raised" /\ anom'.baseline = anom.baseline
        ELSE /\ anom'.pc = "returned"
             /\ anom'.baseline.num_videos = Cardinality(Encodable)]_vars

\* C30 witness: a baseline established by an earlier call is still stored
\* after a call whose videos were all rejected by the encoder has raised
C30_Witness ==
    /\ anom.pc = "raised"
    /\ anom.videos # <<>>
    /\ anom.baseline # NoBaseline
    /\ anom.baseline.num_videos = Len(anom.baseline.features)

\* the units of the batch that ended in SUCCESS, and those that ended in
\* FAILURE
Succeeded == {t \in 1..Len(subs) : task[t].pc = "done" /\ task[t].result = "SUCCESS"}
Failed == {t \in 1..Len(subs) : task[t].pc = "done" /\ task[t].result = "FAILURE"}

C18_EtaNullOnlyWhenNoneDone ==
    job # NoJob =>
        /\ GetIndexingJob(job).found
        /\ GetIndexingJob(job).eta_null <=> job.completed + job.failed = 0

\* the keys the memory tier holds
MemoryEntries == {k \in Keys : queryCache[k] # NoFeatures}

\* C19 (cache budget): the memory tier of the query cache never holds more
\* than its configured budget.
C19_MemoryWithinBudget == Cardinality(MemoryEntries) <= QueryCacheSize

\* the executions of index_video_task that are processing video v
Processing(v) == {t \in TasksOf(v) : task[t].pc = "running"}

\* C20 (one worker per video): at any time at most one execution of
\* index_video_task is processing a given video id.
C20_OneWorkerPerVideo == \A v \in Videos : Cardinality(Processing(v)) <= 1

\* the job row of an empty job once it is marked completed
EmptyCompleted ==
    [total |-> 0, completed |-> 0, failed |-> 0, status |-> "completed",
     started |-> FALSE]

\* C16 (empty job): in a job submitted with zero videos no unit is ever
\* dispatched, the only change of an existing job row is from queued to
\* completed with completed = 0 and failed = 0, and when batch_index_task
\* has returned and the database committed every write the row reads
\* completed 0/0.
C16_EmptyJob ==
    [][Len(subs) = 0 =>
        /\ task' = task
        /\ (job # NoJob /\ job' # job) =>
               (job.status = "queued" /\ job' = EmptyCompleted)
        /\ (batch'.pc = "done" /\ ~dbFault') => job' = EmptyCompleted]_vars

C16_Witness ==
    /\ Len(subs) = 0
    /\ batch.pc = "done"
    /\ job = EmptyCompleted
    /\ \A t \in TaskIds : task[t].pc = "none"

TypeOK ==
    /\ configBound \in BOOLEAN
    /\ subs \in SubLists
    /\ dbFault \in BOOLEAN
    /\ \A t \in TaskIds : task[t].retries \in 0..MaxRetries
====
